---------------------------- MODULE Spec2Model ----------------------------
(***************************************************************************)
(* Model of mesh_convertor.py: a command-line converter that reads a gmsh  *)
(* .msh mesh with meshio, extracts the boundary (line) and the volume      *)
(* (triangle) cells with their "gmsh:physical" tags, and writes each to    *)
(* its own XDMF file.                                                      *)
(*                                                                         *)
(* A string is a sequence of one-character strings, so that endswith and   *)
(* replace are computed character by character as Python computes them.    *)
(* One action models one statement group of main(); pc is the position of  *)
(* main().                                                                 *)
(***************************************************************************)
EXTENDS Integers, Sequences, FiniteSets, TLC

VARIABLES
    pc,           \* position of main()
    args,         \* argv as given: mesh_full_path, output_full_path, mesh_dim, deg
    msh,          \* the mesh returned by meshio.read, None before
    line_mesh,    \* main's local line_mesh, None before its assignment
    triangle_mesh,\* main's local triangle_mesh, None before its assignment
    files,        \* the files meshio.write has written: set of [path, mesh]
    calls,        \* history: the meshio / create_mesh calls made so far, in order
    stdout,       \* the lines printed
    err           \* the uncaught error that ended the run, NoError otherwise

vars == <<pc, args, msh, line_mesh, triangle_mesh, files, calls, stdout, err>>

-----------------------------------------------------------------------------
(* Bounds of the model *)

\* a path is the concatenation of at most MaxPieces pieces of PathPieces
MaxPieces == 2
\* a source mesh has at most MaxCells cells
MaxCells == 3
\* the integers given for --mesh_dim and --deg range over 1 .. MaxArg
MaxArg == 3

-----------------------------------------------------------------------------
(* Strings *)

EXT_MSH == <<".", "m", "s", "h">>
EXT_XDMF == <<".", "x", "d", "m", "f">>
FACET_XDMF == <<"_", "f", "a", "c", "e", "t", ".", "x", "d", "m", "f">>

\* str.endswith
endswith(s, suffix) ==
    /\ Len(s) >= Len(suffix)
    /\ SubSeq(s, Len(s) - Len(suffix) + 1, Len(s)) = suffix

\* str.replace(old, new) for a non-empty old: every non-overlapping occurrence
\* of old, scanning from the left, is replaced
RECURSIVE replace(_, _, _)
replace(s, old, new) ==
    IF Len(s) < Len(old) THEN s
    ELSE IF SubSeq(s, 1, Len(old)) = old
         THEN new \o replace(SubSeq(s, Len(old) + 1, Len(s)), old, new)
         ELSE <<Head(s)>> \o replace(Tail(s), old, new)


-----------------------------------------------------------------------------
(* Input paths: concatenations of at most n pieces *)

PathPieces == { <<"a">>, <<"/">>, EXT_XDMF, EXT_MSH }

RECURSIVE Paths(_)
Paths(n) ==
    IF n = 0 THEN { <<>> }
    ELSE LET shorter == Paths(n - 1)
         IN shorter \cup { p \o q : p \in shorter, q \in PathPieces }

\* the few paths of a run whose mesh contents are explored
SamplePaths ==
    { <<"a">> \o EXT_MSH, <<"a">> \o EXT_XDMF,
      <<"a">> \o EXT_XDMF \o <<"/", "a">> \o EXT_XDMF }

-----------------------------------------------------------------------------
(* Source meshes: what meshio.read returns.  A mesh has points, a sequence *)
(* of cell blocks [type, data] and cell_data, a mapping from a data name   *)
(* to one array per cell block, aligned with the blocks.                   *)

None == [none |-> TRUE]
NoError == [type |-> "", detail |-> ""]

CellKinds == {"line", "line3", "triangle", "triangle6"}

\* number of nodes of a cell of the kind
NumNodes(kind) ==
    CASE kind = "line" -> 2
      [] kind = "line3" -> 3
      [] kind = "triangle" -> 3
      [] kind = "triangle6" -> 6

\* the point arrays a source mesh may hold: 3D with z = 0, 3D with z # 0, 2D
PointArrays ==
    { << <<0, 0, 0>>, <<1, 0, 0>>, <<0, 1, 0>>, <<1, 1, 0>>, <<2, 0, 0>>, <<2, 1, 0>> >>,
      << <<0, 0, 5>>, <<1, 0, 6>>, <<0, 1, 7>>, <<1, 1, 8>>, <<2, 0, 9>>, <<2, 1, 4>> >>,
      << <<0, 0>>, <<1, 0>>, <<0, 1>>, <<1, 1>>, <<2, 0>>, <<2, 1>> >> }

\* the i-th cell of the file: its nodes and its physical tag
Connectivity(i, kind) == [j \in 1..NumNodes(kind) |-> (i + j - 2) % 6]
PhysicalTag(i) == i

\* the cell blocks of a file whose cells have the kinds ks, in file order:
\* a block is a maximal run of cells of one kind
RECURSIVE BlocksFrom(_, _)
BlocksFrom(ks, s) ==
    IF s > Len(ks) THEN <<>>
    ELSE LET e == CHOOSE e \in s..Len(ks) :
                     /\ \A j \in s..e : ks[j] = ks[s]
                     /\ e = Len(ks) \/ ks[e + 1] # ks[s]
         IN << [type |-> ks[s],
                data |-> [j \in 1..(e - s + 1) |-> Connectivity(s + j - 1, ks[s])],
                tags |-> [j \in 1..(e - s + 1) |-> PhysicalTag(s + j - 1)]] >>
            \o BlocksFrom(ks, e + 1)

SourceMesh(ks, physical, points) ==
    LET blocks == BlocksFrom(ks, 1)
    IN [points |-> points,
        cells |-> [b \in 1..Len(blocks) |-> [type |-> blocks[b].type, data |-> blocks[b].data]],
        cell_data |-> [name \in (IF physical THEN {"gmsh:physical"} ELSE {}) |->
                          [b \in 1..Len(blocks) |-> blocks[b].tags]]]

KindSeqs(n) == UNION { [1..k -> CellKinds] : k \in 0..n }

\* a linear file, a quadratic file and a file without volume cells
SampleKindSeqs ==
    { <<"line", "triangle">>, <<"line3", "triangle6">>, <<"line", "line3">> }

-----------------------------------------------------------------------------
(* create_mesh *)

\* a call returns a value or raises
Returned(v) == [ok |-> TRUE, value |-> v]
Raised(type, detail) == [ok |-> FALSE, error |-> [type |-> type, detail |-> detail]]

RECURSIVE concatenate(_)
concatenate(arrays) ==
    IF arrays = <<>> THEN <<>> ELSE Head(arrays) \o concatenate(Tail(arrays))

\* the entries of seq at the indices whose cell block has the type
RECURSIVE SelectType(_, _, _)
SelectType(blocks, seq, cell_type) ==
    IF blocks = <<>> THEN <<>>
    ELSE (IF Head(blocks).type = cell_type THEN <<Head(seq)>> ELSE <<>>)
         \o SelectType(Tail(blocks), Tail(seq), cell_type)

\* mesh.get_cells_type(cell_type): the data of all blocks of the type, concatenated
get_cells_type(mesh, cell_type) ==
    LET found == SelectType(mesh.cells,
                            [b \in 1..Len(mesh.cells) |-> mesh.cells[b].data], cell_type)
    IN IF found = <<>> THEN Raised("LookupError", cell_type)
       ELSE Returned(concatenate(found))

\* get_cell_data that returns the array of the first block of the type only
get_cell_data_first_block(mesh, name, cell_type) ==
    IF name \notin DOMAIN mesh.cell_data THEN Raised("LookupError", cell_type)
    ELSE LET found == SelectType(mesh.cells, mesh.cell_data[name], cell_type)
         IN IF found = <<>> THEN Raised("LookupError", cell_type)
            ELSE Returned(Head(found))

\* mesh.get_cell_data(name, cell_type): the name's arrays of all blocks of the
\* type, concatenated
get_cell_data(mesh, name, cell_type) ==
    IF name \notin DOMAIN mesh.cell_data THEN Raised("LookupError", cell_type)
    ELSE LET found == SelectType(mesh.cells, mesh.cell_data[name], cell_type)
         IN IF found = <<>> THEN Raised("LookupError", cell_type)
            ELSE Returned(concatenate(found))

\* SlicePoints with the slice [:, 1:] in place of [:, :2]
SlicePoints_drop_first(points, prune_z) ==
    IF prune_z
    THEN [i \in 1..Len(points) |-> Tail(points[i])]
    ELSE points

\* mesh.points[:, :2] if prune_z else mesh.points
SlicePoints(points, prune_z) ==
    IF prune_z
    THEN [i \in 1..Len(points) |->
            SubSeq(points[i], 1, IF Len(points[i]) < 2 THEN Len(points[i]) ELSE 2)]
    ELSE points

\* meshio.Mesh(points=points, cells={cell_type: cells},
\*             cell_data={"name_to_read": [cell_data]})
Mesh(points, cell_type, cells, cell_data) ==
    [points |-> points,
     cells |-> << [type |-> cell_type, data |-> cells] >>,
     cell_data |-> [name \in {"name_to_read"} |-> <<cell_data>>]]

\* create_mesh that returns an empty block where a lookup fails
create_mesh_lenient(mesh, cell_type, prune_z) ==
    LET cells == get_cells_type(mesh, cell_type)
        cell_data == get_cell_data(mesh, "gmsh:physical", cell_type)
    IN Returned(Mesh(SlicePoints(mesh.points, prune_z), cell_type,
                     IF cells.ok THEN cells.value ELSE <<>>,
                     IF cell_data.ok THEN cell_data.value ELSE <<>>))

create_mesh(mesh, cell_type, prune_z) ==
    LET cells == get_cells_type(mesh, cell_type)
        cell_data == get_cell_data(mesh, "gmsh:physical", cell_type)
    IN IF ~cells.ok THEN cells
       ELSE IF ~cell_data.ok THEN cell_data
       ELSE Returned(Mesh(SlicePoints(mesh.points, prune_z), cell_type,
                          cells.value, cell_data.value))

-----------------------------------------------------------------------------
(* main *)

\* argparse: choices=[2, 3] and choices=[1, 2]
MeshDimChoices == {2, 3}
DegChoices == {1, 2}

\* prune_z = True if args.mesh_dim==2 else False
PruneZ(mesh_dim) == mesh_dim = 2

\* the cell types of the if / elif on args.deg; "" where main raises
LineType(deg) == IF deg = 1 THEN "line" ELSE IF deg = 2 THEN "line3" ELSE ""
\* TriangleType with the linear kind in both branches
TriangleType_linear(deg) == IF deg = 1 THEN "triangle" ELSE IF deg = 2 THEN "triangle" ELSE ""
TriangleType(deg) == IF deg = 1 THEN "triangle" ELSE IF deg = 2 THEN "triangle6" ELSE ""

\* FacetPath without the replacement
FacetPath_same(output_full_path) == output_full_path

\* args.output_full_path.replace('.xdmf', '_facet.xdmf')
FacetPath(output_full_path) == replace(output_full_path, EXT_XDMF, FACET_XDMF)

\* an entry of the history of calls
Call(op, path, cell_type, prune_z) ==
    [op |-> op, path |-> path, cell_type |-> cell_type, prune_z |-> prune_z]

\* meshio.write(path, mesh): the file at path now holds mesh
WriteFile(fs, path, mesh) ==
    { f \in fs : f.path # path } \cup { [path |-> path, mesh |-> mesh] }

Abort(e) ==
    /\ pc' = "Aborted"
    /\ err' = e

Init(inPaths, outPaths, ints) ==
    /\ pc = "parse_args"
    /\ args \in [mesh_full_path : inPaths, output_full_path : outPaths,
                 mesh_dim : ints, deg : ints]
    /\ msh = None
    /\ line_mesh = None
    /\ triangle_mesh = None
    /\ files = {}
    /\ calls = <<>>
    /\ stdout = <<>>
    /\ err = NoError

\* lines 25-34: parser.parse_args() exits on a value outside the choices
ParseArgs ==
    /\ pc = "parse_args"
    /\ \/ /\ args.mesh_dim \in MeshDimChoices
          /\ args.deg \in DegChoices
          /\ pc' = "check_extensions"
          /\ err' = err
       \/ /\ ~(args.mesh_dim \in MeshDimChoices /\ args.deg \in DegChoices)
          /\ Abort([type |-> "ArgumentError", detail |-> "invalid choice"])
    /\ UNCHANGED <<args, msh, line_mesh, triangle_mesh, files, calls, stdout>>

\* CheckExtensions without the check of the output path
CheckExtensions_input_only ==
    /\ pc = "check_extensions"
    /\ \/ /\ ~endswith(args.mesh_full_path, EXT_MSH)
          /\ Abort([type |-> "Exception", detail |-> "The input file must have the extension .msh"])
       \/ /\ endswith(args.mesh_full_path, EXT_MSH)
          /\ pc' = "read"
          /\ err' = err
    /\ UNCHANGED <<args, msh, line_mesh, triangle_mesh, files, calls, stdout>>

\* lines 37-40
CheckExtensions ==
    /\ pc = "check_extensions"
    /\ \/ /\ ~endswith(args.mesh_full_path, EXT_MSH)
          /\ Abort([type |-> "Exception", detail |-> "The input file must have the extension .msh"])
       \/ /\ endswith(args.mesh_full_path, EXT_MSH)
          /\ ~endswith(args.output_full_path, EXT_XDMF)
          /\ Abort([type |-> "Exception", detail |-> "The output file must have the extension .xdmf"])
       \/ /\ endswith(args.mesh_full_path, EXT_MSH)
          /\ endswith(args.output_full_path, EXT_XDMF)
          /\ pc' = "read"
          /\ err' = err
    /\ UNCHANGED <<args, msh, line_mesh, triangle_mesh, files, calls, stdout>>

\* line 43: msh = meshio.read(args.mesh_full_path); the file holds cells of
\* the kinds of one of kindSeqs, or cannot be read
Read(kindSeqs) ==
    /\ pc = "read"
    /\ calls' = Append(calls, Call("read", args.mesh_full_path, "", FALSE))
    /\ \/ /\ \E ks \in kindSeqs, physical \in BOOLEAN, points \in PointArrays :
                msh' = SourceMesh(ks, physical, points)
          /\ pc' = "create_line_mesh"
          /\ err' = err
       \/ /\ msh' = msh
          /\ Abort([type |-> "ReadError", detail |-> "meshio.read"])
    /\ UNCHANGED <<args, line_mesh, triangle_mesh, files, stdout>>

\* lines 46-49 and 51-52, 54-55: line_mesh = create_mesh(msh, "line" | "line3", prune_z)
CreateLineMesh ==
    /\ pc = "create_line_mesh"
    /\ LET cell_type == LineType(args.deg)
           r == create_mesh(msh, cell_type, PruneZ(args.mesh_dim))
       IN IF cell_type = ""
          THEN /\ Abort([type |-> "Exception", detail |-> "Not implemented yet."])
               /\ UNCHANGED <<line_mesh, calls>>
          ELSE /\ calls' = Append(calls, Call("create_mesh", <<>>, cell_type, PruneZ(args.mesh_dim)))
               /\ IF r.ok
                  THEN /\ line_mesh' = r.value
                       /\ pc' = "create_triangle_mesh"
                       /\ err' = err
                  ELSE /\ line_mesh' = line_mesh
                       /\ Abort(r.error)
    /\ UNCHANGED <<args, msh, triangle_mesh, files, stdout>>

\* lines 50 and 53: triangle_mesh = create_mesh(msh, "triangle" | "triangle6", prune_z)
CreateTriangleMesh ==
    /\ pc = "create_triangle_mesh"
    /\ LET cell_type == TriangleType(args.deg)
           r == create_mesh(msh, cell_type, PruneZ(args.mesh_dim))
       IN /\ calls' = Append(calls, Call("create_mesh", <<>>, cell_type, PruneZ(args.mesh_dim)))
          /\ IF r.ok
             THEN /\ triangle_mesh' = r.value
                  /\ pc' = "write_triangle_mesh"
                  /\ err' = err
             ELSE /\ triangle_mesh' = triangle_mesh
                  /\ Abort(r.error)
    /\ UNCHANGED <<args, msh, line_mesh, files, stdout>>

\* WriteTriangleMesh that goes on to the second write when the first fails
WriteTriangleMesh_ignore_failure ==
    /\ pc = "write_triangle_mesh"
    /\ calls' = Append(calls, Call("write", args.output_full_path, TriangleType(args.deg), FALSE))
    /\ \/ files' = WriteFile(files, args.output_full_path, triangle_mesh)
       \/ files' = files
    /\ pc' = "write_line_mesh"
    /\ UNCHANGED <<args, msh, line_mesh, triangle_mesh, stdout, err>>

\* WriteTriangleMesh that writes the line mesh to the facet path
WriteTriangleMesh_facet_first ==
    /\ pc = "write_triangle_mesh"
    /\ calls' = Append(calls, Call("write", FacetPath(args.output_full_path), LineType(args.deg), FALSE))
    /\ \/ /\ files' = WriteFile(files, FacetPath(args.output_full_path), line_mesh)
          /\ pc' = "write_line_mesh"
          /\ err' = err
       \/ /\ files' = files
          /\ Abort([type |-> "WriteError", detail |-> "meshio.write"])
    /\ UNCHANGED <<args, msh, line_mesh, triangle_mesh, stdout>>

\* line 57: meshio.write(args.output_full_path, triangle_mesh)
WriteTriangleMesh ==
    /\ pc = "write_triangle_mesh"
    /\ calls' = Append(calls, Call("write", args.output_full_path, TriangleType(args.deg), FALSE))
    /\ \/ /\ files' = WriteFile(files, args.output_full_path, triangle_mesh)
          /\ pc' = "write_line_mesh"
          /\ err' = err
       \/ /\ files' = files
          /\ Abort([type |-> "WriteError", detail |-> "meshio.write"])
    /\ UNCHANGED <<args, msh, line_mesh, triangle_mesh, stdout>>

\* WriteLineMesh that prints the notice and ends normally when the write fails
WriteLineMesh_done_on_failure ==
    /\ pc = "write_line_mesh"
    /\ calls' = Append(calls, Call("write", FacetPath(args.output_full_path), LineType(args.deg), FALSE))
    /\ \/ files' = WriteFile(files, FacetPath(args.output_full_path), line_mesh)
       \/ files' = files
    /\ stdout' = Append(stdout, "Mesh conversion is done.")
    /\ pc' = "Done"
    /\ UNCHANGED <<args, msh, line_mesh, triangle_mesh, err>>

\* lines 58-60: meshio.write(<facet path>, line_mesh); print("Mesh conversion is done.")
WriteLineMesh ==
    /\ pc = "write_line_mesh"
    /\ calls' = Append(calls, Call("write", FacetPath(args.output_full_path), LineType(args.deg), FALSE))
    /\ \/ /\ files' = WriteFile(files, FacetPath(args.output_full_path), line_mesh)
          /\ stdout' = Append(stdout, "Mesh conversion is done.")
          /\ pc' = "Done"
          /\ err' = err
       \/ /\ files' = files
          /\ stdout' = stdout
          /\ Abort([type |-> "WriteError", detail |-> "meshio.write"])
    /\ UNCHANGED <<args, msh, line_mesh, triangle_mesh>>

\* a run over every source mesh, with the sample paths
Next ==
    \/ ParseArgs
    \/ CheckExtensions
    \/ Read(KindSeqs(MaxCells))
    \/ CreateLineMesh
    \/ CreateTriangleMesh
    \/ WriteTriangleMesh
    \/ WriteLineMesh

Spec == Init(SamplePaths, SamplePaths, 1..MaxArg) /\ [][Next]_vars

\* a run over every path, with the sample meshes
PathNext ==
    \/ ParseArgs
    \/ CheckExtensions
    \/ Read(SampleKindSeqs)
    \/ CreateLineMesh
    \/ CreateTriangleMesh
    \/ WriteTriangleMesh
    \/ WriteLineMesh

PathSpec == Init(Paths(MaxPieces), Paths(MaxPieces), 1..MaxArg) /\ [][PathNext]_vars

\* main() is synchronous and is never suspended: a run that can take a step
\* takes it
FairSpec == PathSpec /\ WF_vars(PathNext)

-----------------------------------------------------------------------------
(* Vocabulary of the properties, stated from the specification's tables *)

Terminal == pc \in {"Done", "Aborted"}

\* the cell-kind selection table
BoundaryKind(deg) == CASE deg = 1 -> "line" [] deg = 2 -> "line3" [] OTHER -> "none"
VolumeKind(deg) == CASE deg = 1 -> "triangle" [] deg = 2 -> "triangle6" [] OTHER -> "none"

ValidArguments ==
    /\ Len(args.mesh_full_path) >= 4
    /\ \A i \in 1..4 : args.mesh_full_path[Len(args.mesh_full_path) - 4 + i] = EXT_MSH[i]
    /\ Len(args.output_full_path) >= 5
    /\ \A i \in 1..5 : args.output_full_path[Len(args.output_full_path) - 5 + i] = EXT_XDMF[i]
    /\ args.mesh_dim \in {2, 3}
    /\ args.deg \in {1, 2}

\* the source mesh holds a block of the kind and "gmsh:physical" data
HasKind(mesh, kind) ==
    /\ "gmsh:physical" \in DOMAIN mesh.cell_data
    /\ \E b \in 1..Len(mesh.cells) : mesh.cells[b].type = kind

\* the output path with its last five characters replaced by "_facet.xdmf"
SuffixReplaced(path) == SubSeq(path, 1, Len(path) - 5) \o FACET_XDMF

WriteCalls == { i \in 1..Len(calls) : calls[i].op = "write" }
CreateCalls == { i \in 1..Len(calls) : calls[i].op = "create_mesh" }
ReadCalls == { i \in 1..Len(calls) : calls[i].op = "read" }

VolumeFileWritten == \E f \in files : f.path = args.output_full_path
OtherFileWritten == \E f \in files : f.path # args.output_full_path

\* the output meshes produced so far
Produced == {line_mesh, triangle_mesh, None} \ {None}

-----------------------------------------------------------------------------
\* C1: when the source mesh lacks the boundary kind or the volume kind (or its
\* "gmsh:physical" data), the run aborts with a lookup failure and no file is
\* written; no meshio.write call is made before both extractions succeeded.
C1_NoWriteUnlessBothExtracted ==
    /\ (WriteCalls # {} \/ files # {}) =>
          /\ msh # None
          /\ HasKind(msh, BoundaryKind(args.deg))
          /\ HasKind(msh, VolumeKind(args.deg))
          /\ line_mesh # None
          /\ triangle_mesh # None
    /\ (/\ msh # None
        /\ ~(HasKind(msh, BoundaryKind(args.deg)) /\ HasKind(msh, VolumeKind(args.deg)))
        /\ pc \notin {"create_line_mesh", "create_triangle_mesh"}) =>
          /\ pc = "Aborted"
          /\ err.type = "LookupError"
          /\ files = {}
          /\ WriteCalls = {}

\* deg = 2 on a mesh with line3 cells and no triangle6 block: aborted, nothing written
C1_Witness ==
    /\ pc = "Aborted"
    /\ args.deg = 2
    /\ msh # None
    /\ HasKind(msh, "line3")
    /\ ~HasKind(msh, "triangle6")
    /\ line_mesh # None
    /\ err = [type |-> "LookupError", detail |-> "triangle6"]

\* C2: the path the boundary mesh is written to is the output path with only
\* its final ".xdmf" replaced by "_facet.xdmf"; earlier occurrences of ".xdmf"
\* are left unchanged.
C2_FacetPathReplacesFinalSuffixOnly ==
    \A i \in WriteCalls :
        calls[i].cell_type = BoundaryKind(args.deg) =>
            calls[i].path = SuffixReplaced(args.output_full_path)

\* C3: meshio.read is called only after validation passed; with an invalid
\* argument the run aborts with an error and reads, extracts and writes nothing.
C3_NoReadUnlessValid ==
    /\ (calls # <<>> \/ msh # None \/ Produced # {} \/ files # {}) => ValidArguments
    /\ (~ValidArguments /\ pc \notin {"parse_args", "check_extensions"}) =>
          /\ pc = "Aborted"
          /\ err.type \in {"ArgumentError", "Exception"}
          /\ calls = <<>>
          /\ msh = None
          /\ files = {}

\* a valid input path with an output path that does not end in ".xdmf": aborted
\* before any read
C3_Witness ==
    /\ pc = "Aborted"
    /\ endswith(args.mesh_full_path, EXT_MSH)
    /\ ~endswith(args.output_full_path, EXT_XDMF)
    /\ args.mesh_dim \in {2, 3}
    /\ args.deg \in {1, 2}
    /\ err.detail = "The output file must have the extension .xdmf"
    /\ calls = <<>>

\* C4: the cell kinds extracted are those of the table row of deg and no other;
\* the file at the output path holds the volume kind and the other file written
\* holds the boundary kind.
C4_KindsFixedByDeg ==
    /\ \A i \in CreateCalls :
          /\ args.deg \in {1, 2}
          /\ calls[i].cell_type \in {BoundaryKind(args.deg), VolumeKind(args.deg)}
    /\ line_mesh # None =>
          /\ Len(line_mesh.cells) = 1
          /\ line_mesh.cells[1].type = BoundaryKind(args.deg)
    /\ triangle_mesh # None =>
          /\ Len(triangle_mesh.cells) = 1
          /\ triangle_mesh.cells[1].type = VolumeKind(args.deg)
    /\ \A f \in files :
          /\ Len(f.mesh.cells) = 1
          /\ f.path = args.output_full_path => f.mesh.cells[1].type = VolumeKind(args.deg)
          /\ f.path # args.output_full_path =>
                /\ f.mesh.cells[1].type = BoundaryKind(args.deg)
                /\ endswith(f.path, FACET_XDMF)

\* a finished quadratic run: both files written
C4_Witness ==
    /\ pc = "Done"
    /\ args.deg = 2
    /\ \E f \in files : f.path = args.output_full_path /\ f.mesh.cells[1].type = "triangle6"
    /\ \E f \in files : f.path # args.output_full_path /\ f.mesh.cells[1].type = "line3"

\* C5: prune_z is true exactly when mesh_dim is 2, whatever the coordinates;
\* with mesh_dim 2 every output point is the first two components of the source
\* point, in the source order; with mesh_dim 3 the points are the source's.
C5_PruneZ ==
    /\ \A i \in CreateCalls : calls[i].prune_z = (args.mesh_dim = 2)
    /\ \A m \in Produced \cup { f.mesh : f \in files } :
          /\ Len(m.points) = Len(msh.points)
          /\ \A i \in 1..Len(m.points) :
                IF args.mesh_dim = 2
                THEN /\ Len(m.points[i]) = 2
                     /\ m.points[i][1] = msh.points[i][1]
                     /\ m.points[i][2] = msh.points[i][2]
                ELSE /\ args.mesh_dim = 3
                     /\ m.points[i] = msh.points[i]

\* a finished run with mesh_dim 2 on a source whose points have a non-zero third
\* component
C5_Witness ==
    /\ pc = "Done"
    /\ args.mesh_dim = 2
    /\ Len(msh.points[1]) = 3
    /\ msh.points[1][3] # 0
    /\ \A f \in files : Len(f.mesh.points[1]) = 2

\* the cells of the source mesh in file order, each with its kind, its
\* connectivity and its "gmsh:physical" tag
RECURSIVE TaggedCells(_, _, _)
TaggedCells(mesh, b, j) ==
    IF b > Len(mesh.cells) THEN <<>>
    ELSE IF j > Len(mesh.cells[b].data) THEN TaggedCells(mesh, b + 1, 1)
    ELSE << [type |-> mesh.cells[b].type,
             conn |-> mesh.cells[b].data[j],
             tag |-> mesh.cell_data["gmsh:physical"][b][j]] >>
         \o TaggedCells(mesh, b, j + 1)

IsKind(kind, c) == c.type = kind

\* C6: an output mesh has exactly one cell block, of the requested kind, and
\* exactly one cell-data entry, "name_to_read", wrapping one tag array; the tag
\* array is as long as the connectivity sequence, and cell by cell they are the
\* source's cells of the kind with their "gmsh:physical" tags, in the same order.
C6_OneBlockAlignedTags ==
    \A m \in Produced \cup { f.mesh : f \in files } :
        /\ Len(m.cells) = 1
        /\ m.cells[1].type \in {BoundaryKind(args.deg), VolumeKind(args.deg)}
        /\ DOMAIN m.cell_data = {"name_to_read"}
        /\ Len(m.cell_data["name_to_read"]) = 1
        /\ Len(m.cells[1].data) = Len(m.cell_data["name_to_read"][1])
        /\ LET kind == m.cells[1].type
               tags == m.cell_data["name_to_read"][1]
               source == SelectSeq(TaggedCells(msh, 1, 1), LAMBDA c : IsKind(kind, c))
           IN /\ Len(tags) = Len(source)
              /\ \A j \in 1..Len(source) :
                    /\ m.cells[1].data[j] = source[j].conn
                    /\ tags[j] = source[j].tag

\* a finished run on a source with two line blocks around a triangle block: the
\* line mesh holds the cells and the tags of both blocks
C6_Witness ==
    /\ pc = "Done"
    /\ Len(msh.cells) = 3
    /\ msh.cells[1].type = "line"
    /\ msh.cells[3].type = "line"
    /\ Len(line_mesh.cells[1].data) = 2
    /\ line_mesh.cell_data["name_to_read"] = << <<1, 3>> >>

\* C7 as stated: in every terminal state both output files are written or
\* neither is.
C7_BothOrNeither ==
    Terminal => Cardinality(files) \in {0, 2}

\* C7 amended: in every terminal state both output files are written, or
\* neither, or the volume file alone, and the last only when the second write
\* failed; at no time is the boundary file written without the volume file.
C7_BothOrNeitherUnlessSecondWriteFails ==
    /\ OtherFileWritten => VolumeFileWritten
    /\ Cardinality(files) <= 2
    /\ Terminal =>
          \/ Cardinality(files) = 0 /\ pc = "Aborted" /\ Cardinality(WriteCalls) <= 1
          \/ Cardinality(files) = 2 /\ pc = "Done"
          \/ /\ Cardinality(files) = 1
             /\ VolumeFileWritten
             /\ pc = "Aborted"
             /\ err.type = "WriteError"
             /\ Cardinality(WriteCalls) = 2

\* the second write failed after the first succeeded
C7_Witness ==
    /\ pc = "Aborted"
    /\ Cardinality(files) = 1
    /\ VolumeFileWritten
    /\ Cardinality(WriteCalls) = 2

\* s is an initial part of t
IsPrefix(s, t) == Len(s) <= Len(t) /\ \A i \in 1..Len(s) : s[i] = t[i]

\* the operation and the cell kind of each call so far
CallKinds == [i \in 1..Len(calls) |-> <<calls[i].op, calls[i].cell_type>>]

\* C8 as stated: the calls of a run are, in order, read, extract the volume
\* kind, extract the boundary kind, write the volume mesh, write the boundary
\* mesh; when both kinds are missing the failure reported is the volume kind's.
C8_VolumeExtractedFirst ==
    /\ IsPrefix(CallKinds,
                << <<"read", "">>,
                   <<"create_mesh", VolumeKind(args.deg)>>,
                   <<"create_mesh", BoundaryKind(args.deg)>>,
                   <<"write", VolumeKind(args.deg)>>,
                   <<"write", BoundaryKind(args.deg)>> >>)
    /\ (/\ pc = "Aborted"
        /\ msh # None
        /\ ~HasKind(msh, BoundaryKind(args.deg))
        /\ ~HasKind(msh, VolumeKind(args.deg))) =>
          err = [type |-> "LookupError", detail |-> VolumeKind(args.deg)]

\* C8 amended: the calls of a run are, in order, read of the input path, extract
\* the boundary kind, extract the volume kind, write the volume mesh to the
\* output path, write the boundary mesh to another path; the notice is printed
\* after the five calls only; when both kinds are missing the failure reported
\* is the boundary kind's.
C8_BoundaryExtractedFirst ==
    /\ IsPrefix(CallKinds,
                << <<"read", "">>,
                   <<"create_mesh", BoundaryKind(args.deg)>>,
                   <<"create_mesh", VolumeKind(args.deg)>>,
                   <<"write", VolumeKind(args.deg)>>,
                   <<"write", BoundaryKind(args.deg)>> >>)
    /\ calls # <<>> => ValidArguments /\ calls[1].path = args.mesh_full_path
    /\ Len(calls) >= 4 => calls[4].path = args.output_full_path
    /\ Len(calls) >= 5 => calls[5].path # args.output_full_path
    /\ Len(calls) >= 2 => line_mesh # None \/ pc = "Aborted"
    /\ Len(calls) >= 3 => triangle_mesh # None \/ pc = "Aborted"
    /\ stdout # <<>> => Len(calls) = 5 /\ pc = "Done" /\ stdout = <<"Mesh conversion is done.">>
    /\ pc = "Done" => stdout # <<>>
    /\ (/\ pc = "Aborted"
        /\ msh # None
        /\ ~HasKind(msh, BoundaryKind(args.deg))
        /\ ~HasKind(msh, VolumeKind(args.deg))) =>
          err = [type |-> "LookupError", detail |-> BoundaryKind(args.deg)]

\* a successful run: the five calls made and the notice printed
C8_Witness ==
    /\ pc = "Done"
    /\ Len(calls) = 5
    /\ calls[2].cell_type = "line"
    /\ calls[3].cell_type = "triangle"
    /\ stdout # <<>>

\* the states of the run
Phase ==
    CASE pc \in {"parse_args", "check_extensions"} -> "Validating"
      [] pc = "read" -> "Loading"
      [] pc \in {"create_line_mesh", "create_triangle_mesh"} -> "Extracting"
      [] pc \in {"write_triangle_mesh", "write_line_mesh"} -> "Writing"
      [] pc = "Done" -> "Done"
      [] pc = "Aborted" -> "Aborted"

PhaseOrder == <<"Validating", "Loading", "Extracting", "Writing", "Done">>
PhaseRank(phase) == CHOOSE i \in 1..Len(PhaseOrder) : PhaseOrder[i] = phase

\* where a run may end normally: both writes succeeded and the notice is printed
DoneOnlyAfterBothWrites ==
    /\ err = NoError
    /\ stdout = <<"Mesh conversion is done.">>
    /\ VolumeFileWritten
    /\ OtherFileWritten
    /\ Cardinality(files) = 2
    /\ Cardinality(WriteCalls) = 2

\* a step stays in its phase or moves to the next one, or aborts on a failure;
\* no position is taken twice and no step leaves a terminal state
PhaseStep ==
    /\ ~Terminal
    /\ pc' # pc
    /\ \/ /\ pc' = "Aborted"
          /\ err' # NoError
          /\ stdout' = <<>>
          /\ Cardinality(files') <= 1
       \/ /\ pc' # "Aborted"
          /\ err' = NoError
          /\ PhaseRank(Phase') \in {PhaseRank(Phase), PhaseRank(Phase) + 1}
          /\ pc' = "Done" => DoneOnlyAfterBothWrites'

\* C9: a run goes through Validating, Loading, Extracting, Writing, Done without
\* a loop or a retry; it ends in Done or in Aborted; a failure leads to Aborted
\* with no later step; Done is reached only when both writes succeeded.
C9_LinearRunTerminates ==
    /\ [][PhaseStep]_vars
    /\ <>Terminal

\* a run that ended normally
C9_Witness ==
    /\ pc = "Done"
    /\ Cardinality(files) = 2
    /\ stdout = <<"Mesh conversion is done.">>

\* C10: the path of the second write differs from the output path and from the
\* input path, so the boundary mesh overwrites neither the volume file nor
\* the source file.
C10_FacetPathIsFresh ==
    /\ \A i \in WriteCalls, j \in WriteCalls : i # j => calls[i].path # calls[j].path
    /\ \A i \in WriteCalls : \A j \in ReadCalls : calls[i].path # calls[j].path
    /\ \A i \in WriteCalls :
          calls[i].cell_type = BoundaryKind(args.deg) =>
              /\ calls[i].path # args.output_full_path
              /\ calls[i].path # args.mesh_full_path
    /\ pc = "Done" =>
          /\ \E f \in files : f.path = args.output_full_path /\ f.mesh = triangle_mesh
          /\ \E f \in files : f.path # args.output_full_path /\ f.mesh = line_mesh

\* a finished run whose output path holds ".xdmf" twice
C10_Witness ==
    /\ pc = "Done"
    /\ args.output_full_path = EXT_XDMF \o EXT_XDMF
    /\ Cardinality(files) = 2

=============================================================================
